---- MODULE Spec2Model ----
(* A model of promote.py: the promotion of a source branch onto a          *)
(* destination branch and the minting of a draft release for it.           *)
(*                                                                         *)
(* A tag name (a string in the program) is a tuple of its dot/dash         *)
(* separated fields: "1.2.0" is <<1,2,0>>, "1.2.0-rc" is <<1,2,0,"rc">>,   *)
(* "1.2.0-rc.3" is <<1,2,0,"rc",3>>; a tuple of any other length is a tag  *)
(* that semver cannot parse ("1.2" is <<1,2>>).  A parsed version is a     *)
(* record, as semver.VersionInfo is.  Build metadata is not modelled.      *)
EXTENDS Integers, Sequences, FiniteSets, TLC

(***************************************************************************)
(* Bounds of the model.                                                    *)
(***************************************************************************)
MaxMajor == 1
MaxMinor == 1
MaxPatch == 0
MaxPreNum == 1
MaxReleases == 2
MaxRunReleases == 1
MaxRuns == 2
NumCommits == 3

(***************************************************************************)
(* semver, as promote.py uses it.                                          *)
(***************************************************************************)
Tokens == {"beta", "rc", "rcx"}

\* Python's order of the prerelease identifiers above ("" < "beta" < "rc" < "rcx")
TokRank(tok) ==
    IF tok = "" THEN 0 ELSE IF tok = "beta" THEN 1 ELSE IF tok = "rc" THEN 2 ELSE 3

\* str.startswith("rc") on the identifiers above
StartsWithRc(tok) == tok \in {"rc", "rcx"}

\* VersionInfo.prerelease is None: tok is "", and num is -1 when the label
\* has no numeric suffix
NoPre == [tok |-> "", num |-> -1]

VersionInfo(ma, mi, pa, pre) ==
    [major |-> ma, minor |-> mi, patch |-> pa, prerelease |-> pre]

ValueError == <<"ValueError">>

IsParseable(tag) == Len(tag) \in {3, 4, 5}

parse_version_info(tag) ==
    IF Len(tag) = 3 THEN VersionInfo(tag[1], tag[2], tag[3], NoPre)
    ELSE IF Len(tag) = 4
         THEN VersionInfo(tag[1], tag[2], tag[3], [tok |-> tag[4], num |-> -1])
         ELSE VersionInfo(tag[1], tag[2], tag[3], [tok |-> tag[4], num |-> tag[5]])

\* str(VersionInfo)
format_version(v) ==
    IF v.prerelease.tok = "" THEN <<v.major, v.minor, v.patch>>
    ELSE IF v.prerelease.num = -1
         THEN <<v.major, v.minor, v.patch, v.prerelease.tok>>
         ELSE <<v.major, v.minor, v.patch, v.prerelease.tok, v.prerelease.num>>

Cmp(a, b) == IF a < b THEN -1 ELSE IF a > b THEN 1 ELSE 0

\* semver._nat_cmp on two prerelease labels: identifier by identifier, then
\* by length
NatCmp(p, q) ==
    IF p.tok # q.tok THEN Cmp(TokRank(p.tok), TokRank(q.tok))
    ELSE IF p.num # -1 /\ q.num # -1 /\ p.num # q.num THEN Cmp(p.num, q.num)
    ELSE Cmp(IF p.num = -1 THEN 0 ELSE 1, IF q.num = -1 THEN 0 ELSE 1)

\* VersionInfo comparison (semver._compare_by_keys), which max() uses
Compare(v1, v2) ==
    IF v1.major # v2.major THEN Cmp(v1.major, v2.major)
    ELSE IF v1.minor # v2.minor THEN Cmp(v1.minor, v2.minor)
    ELSE IF v1.patch # v2.patch THEN Cmp(v1.patch, v2.patch)
    ELSE LET rccmp == NatCmp(v1.prerelease, v2.prerelease)
         IN  IF rccmp = 0 THEN 0
             ELSE IF v1.prerelease.tok = "" THEN 1
             ELSE IF v2.prerelease.tok = "" THEN -1
             ELSE rccmp

\* Python's max() of a non-empty list: the first of the greatest elements
RECURSIVE MaxFrom(_, _, _)
MaxFrom(versions, i, best) ==
    IF i > Len(versions) THEN best
    ELSE MaxFrom(versions, i + 1,
                 IF Compare(versions[i], best) = 1 THEN versions[i] ELSE best)

Max(versions) == MaxFrom(versions, 2, versions[1])

bump_major(tag) ==
    LET v == parse_version_info(tag)
    IN  format_version(VersionInfo(v.major + 1, 0, 0, NoPre))

bump_minor(tag) ==
    LET v == parse_version_info(tag)
    IN  format_version(VersionInfo(v.major, v.minor + 1, 0, NoPre))

bump_patch(tag) ==
    LET v == parse_version_info(tag)
    IN  format_version(VersionInfo(v.major, v.minor, v.patch + 1, NoPre))

\* an _increment_string that leaves the number as it is
IncrementString_Same(pre) == pre

\* semver._increment_string: the last number of the label goes up by one; a
\* label without a number is returned as it is
IncrementString(pre) ==
    IF pre.num = -1 THEN pre ELSE [pre EXCEPT !.num = pre.num + 1]

bump_prerelease(tag, token) ==
    LET v == parse_version_info(tag)
        base == IF v.prerelease.tok # "" THEN v.prerelease
                ELSE [tok |-> token, num |-> 0]
    IN  format_version(VersionInfo(v.major, v.minor, v.patch, IncrementString(base)))

finalize_version(tag) ==
    LET v == parse_version_info(tag)
    IN  format_version(VersionInfo(v.major, v.minor, v.patch, NoPre))

\* getattr(semver, f"bump_{cmd_args.release}")
Bump(release, tag) ==
    IF release = "major" THEN bump_major(tag)
    ELSE IF release = "minor" THEN bump_minor(tag)
    ELSE IF release = "patch" THEN bump_patch(tag)
    ELSE bump_prerelease(tag, "rc")

(***************************************************************************)
(* The version decision: get_current_version and update_version.           *)
(***************************************************************************)
\* max(versions) of a list that may be empty: max([]) raises ValueError
MaxOrRaise(tags) ==
    IF tags = <<>> THEN ValueError
    ELSE format_version(Max([i \in 1..Len(tags) |-> parse_version_info(tags[i])]))

\* the condition of the "staging" list comprehension
IsStagingRelease(tag) ==
    /\ parse_version_info(tag).prerelease.tok # ""
    /\ StartsWithRc(parse_version_info(tag).prerelease.tok)

\* the condition of the "prod" list comprehension
IsProdRelease(tag) == parse_version_info(tag).prerelease.tok = ""

\* the tag names the release listing returned, and the stage; the result is
\* a tag name, or ValueError when the function raises
get_current_version(rels, _stage) ==
    IF rels # <<>> /\ _stage = "staging"
    THEN IF \E i \in 1..Len(rels) : ~IsParseable(rels[i]) THEN ValueError
         ELSE MaxOrRaise(SelectSeq(rels, IsStagingRelease))
    ELSE IF rels # <<>> /\ _stage = "prod"
    THEN IF \E i \in 1..Len(rels) : ~IsParseable(rels[i]) THEN ValueError
         ELSE MaxOrRaise(SelectSeq(rels, IsProdRelease))
    ELSE MaxOrRaise(<<format_version(VersionInfo(0, 0, 0, NoPre))>>)

\* the branch of update_version that finalizes instead of bumping
FinalizesVersion(src) == src = "prod"

\* a bump that attaches no label
BumpedVersion_NoLabel(release, cur) == Bump(release, cur)

\* the bumped version, with the rc label attached when it carries none
BumpedVersion(release, cur) ==
    LET bumped == Bump(release, cur)
    IN  IF parse_version_info(bumped).prerelease.tok # "" THEN bumped
        ELSE bump_prerelease(bumped, "rc")

\* an update_version that never finds nothing to promote
NothingToPromote_Never(cur, new) == FALSE

\* `if cur_version == _new_version`: nothing to promote
NothingToPromote(cur, new) == cur = new

\* how update_version ends: "return" with the new version, "exit" with
\* status 0 (nothing to promote), or "raise" (an uncaught ValueError)
update_version(rels, stage_name, release, src, dst) ==
    LET cur == get_current_version(rels, stage_name)
        prv == get_current_version(rels, dst)
    IN  IF cur = ValueError
        THEN [kind |-> "raise", cur_version |-> ValueError, new_version |-> ValueError]
        ELSE IF FinalizesVersion(src) /\ prv = ValueError
        THEN [kind |-> "raise", cur_version |-> cur, new_version |-> ValueError]
        ELSE LET new == IF FinalizesVersion(src) THEN finalize_version(prv)
                        ELSE BumpedVersion(release, cur)
             IN  [kind |-> IF NothingToPromote(cur, new) THEN "exit" ELSE "return",
                  cur_version |-> cur, new_version |-> new]

(***************************************************************************)
(* Command line and configuration.                                         *)
(***************************************************************************)
ReleaseKinds == {"major", "minor", "patch", "prerelease"}

\* release_config.json: the release_map the runs are checked with
release_map ==
    [integration |-> [source |-> "master", destination |-> "integration", prerelease |-> TRUE],
     staging     |-> [source |-> "integration", destination |-> "staging", prerelease |-> TRUE],
     prod        |-> [source |-> "staging", destination |-> "prod", prerelease |-> FALSE],
     backport    |-> [source |-> "prod", destination |-> "staging", prerelease |-> TRUE]]

StageNames == DOMAIN release_map

\* the command lines: release is "" when --release is not given, and
\* release_notes says whether --release-notes names a path
CommandLines ==
    [stage : StageNames, release : ReleaseKinds \cup {""}, force : BOOLEAN,
     release_notes : BOOLEAN, dry_run : BOOLEAN]

\* parser.parse_args(): --release defaults to "prerelease"
parse_args(argv) ==
    [argv EXCEPT !.release = IF argv.release = "" THEN "prerelease" ELSE argv.release]

\* the module-level check that rejects a release type for "prod"
RejectsReleaseType(args) == args.stage = "prod" /\ args.release # ""

(***************************************************************************)
(* The repository: commits and what is reachable from them.                *)
(***************************************************************************)
Commits == 1..NumCommits

\* commit 1 is the root and commit c has parent c \div 2
RECURSIVE Reach(_)
Reach(c) == IF c <= 1 THEN {c} ELSE {c} \cup Reach(c \div 2)

\* the version universe of the release lists
PreLabels ==
    {NoPre} \cup [tok : Tokens, num : -1..MaxPreNum]

Versions ==
    {VersionInfo(ma, mi, pa, pre) :
        ma \in 0..MaxMajor, mi \in 0..MaxMinor, pa \in 0..MaxPatch, pre \in PreLabels}

MalformedTag == <<1, 2>>

TagNames == {format_version(v) : v \in Versions} \cup {MalformedTag}

\* the tags of the whole runs: 0.0.0, its rc labels, and the malformed one
RunTagNames ==
    {t \in TagNames : \/ t = MalformedTag
                      \/ /\ t[1] = 0 /\ t[2] = 0 /\ t[3] = 0
                         /\ Len(t) > 3 => t[4] = "rc"}

SeqsUpTo(S, n) == UNION {[1..k -> S] : k \in 0..n}

(***************************************************************************)
(* The state of one run of the script.                                     *)
(***************************************************************************)
VARIABLES
    argv,          \* the command line
    pc,            \* the step the script is at
    exit_code,     \* the exit status, -1 while the script runs
    exit_at,       \* the step that ended the script, "" while it runs
    tree_dirty,    \* `git diff` of the working tree prints something
    path_log,      \* `git log -- <src> ^<dst>` prints something
    origin_src,    \* the commit of origin/<source> in the local repository
    origin_dst,    \* the commit of origin/<destination> in the local repository
    remote_dst,    \* the commit of <destination> on the remote
    releases,      \* the tag names GET /releases returns
    release_notes, \* the commits of the release notes
    notes_file,    \* the file of --release-notes: <<>> until it is written
    cur_version,   \* update_version's cur_version
    new_version,   \* update_version's result
    old_branch,    \* the output of `git rev-parse origin/<destination>`
    pushes,        \* the `git push --force` commands run, in order: the commit
                   \* pushed, whether the remote took it, and what it had
    posts,         \* the release-creation requests sent, in order
    traceback      \* the exceptions of the traceback the script ends with

vars == <<argv, pc, exit_code, exit_at, tree_dirty, path_log, origin_src, origin_dst,
          remote_dst, releases, release_notes, notes_file, cur_version, new_version,
          old_branch, pushes, posts, traceback>>

cmd_args == parse_args(argv)

\* stage = config["release_map"][cmd_args.stage] and what is read from it
stage == release_map[cmd_args.stage]
source == stage.source
destination == stage.destination
prerelease == stage.prerelease

Unset == <<>>

\* exit(code), or an uncaught exception (status 1), at step `at`
Exit(code, at) ==
    /\ pc' = "exit"
    /\ exit_code' = code
    /\ exit_at' = at

Goto(step) ==
    /\ pc' = step
    /\ UNCHANGED <<exit_code, exit_at>>

InitRun ==
    /\ exit_code = -1
    /\ exit_at = ""
    /\ tree_dirty \in BOOLEAN
    /\ path_log \in BOOLEAN
    /\ origin_src \in Commits
    /\ origin_dst \in Commits
    /\ remote_dst \in Commits
    /\ release_notes = {}
    /\ notes_file = Unset
    /\ cur_version = Unset
    /\ new_version = Unset
    /\ old_branch = Unset
    /\ pushes = <<>>
    /\ posts = <<>>
    /\ traceback = <<>>

\* a whole run of the script, from its first line
Init ==
    /\ argv \in CommandLines
    /\ pc = "parse"
    /\ releases \in SeqsUpTo(RunTagNames, MaxRunReleases)
    /\ InitRun

(***************************************************************************)
(* The steps of the script.                                                *)
(***************************************************************************)
unchanged_repo == UNCHANGED <<argv, tree_dirty, path_log, origin_src, releases>>

\* lines 54-59
module_level ==
    /\ pc = "parse"
    /\ IF RejectsReleaseType(cmd_args)
       THEN Exit(1, "parse")
       ELSE Goto("check_working_tree")
    /\ unchanged_repo
    /\ UNCHANGED <<origin_dst, remote_dst, release_notes, notes_file, cur_version,
                   new_version, old_branch, pushes, posts, traceback>>

\* a check_working_tree that --force overrides
WorkingTreeBlocks_UnlessForced(result, args) == result /\ ~args.force

\* check_working_tree exits when `git diff` prints something
WorkingTreeBlocks(result, args) == result

check_working_tree ==
    /\ pc = "check_working_tree"
    /\ IF WorkingTreeBlocks(tree_dirty, cmd_args)
       THEN Exit(1, "check_working_tree")
       ELSE Goto("check_diff")
    /\ unchanged_repo
    /\ UNCHANGED <<origin_dst, remote_dst, release_notes, notes_file, cur_version,
                   new_version, old_branch, pushes, posts, traceback>>

\* the output of check_diff's `git log ... -- <src> ^<dst>` is not empty:
\* what follows "--" are paths, so the log is that of the commits of HEAD
\* that touch a path named <src> or ^<dst>, whatever the two branches hold
CheckDiffResult(src, dst) == path_log

\* a check_diff that exits whether --force is given or not
CheckDiffExits_IgnoringForce(result, args) == result

\* check_diff exits when its log is not empty and --force is not given
CheckDiffExits(result, args) == result /\ ~args.force

check_diff ==
    /\ pc = "check_diff"
    /\ IF CheckDiffExits(CheckDiffResult(source, destination), cmd_args)
       THEN Exit(1, "check_diff")
       ELSE Goto("make_release_notes")
    /\ unchanged_repo
    /\ UNCHANGED <<origin_dst, remote_dst, release_notes, notes_file, cur_version,
                   new_version, old_branch, pushes, posts, traceback>>

\* `git log origin/<src>...origin/<dst>`: the commits of one side only
NotesLog == (Reach(origin_src) \ Reach(origin_dst)) \cup (Reach(origin_dst) \ Reach(origin_src))

\* make_release_notes writes the notes when --release-notes is given
WritesNotes(args) == args.release_notes

make_release_notes ==
    /\ pc = "make_release_notes"
    /\ release_notes' = NotesLog
    /\ notes_file' = IF WritesNotes(cmd_args) THEN <<NotesLog>> ELSE notes_file
    /\ Goto("update_version")
    /\ unchanged_repo
    /\ UNCHANGED <<origin_dst, remote_dst, cur_version, new_version, old_branch,
                   pushes, posts, traceback>>

\* line 228
update_version_step ==
    /\ pc = "update_version"
    /\ LET r == update_version(releases, cmd_args.stage, cmd_args.release,
                               source, destination)
       IN  /\ cur_version' = r.cur_version
           /\ new_version' = r.new_version
           /\ IF r.kind = "raise" THEN Exit(1, "update_version")
              ELSE IF r.kind = "exit" THEN Exit(0, "update_version")
              ELSE Goto("rev_parse")
           /\ traceback' = IF r.kind = "raise" THEN <<"ValueError">> ELSE traceback
    /\ unchanged_repo
    /\ UNCHANGED <<origin_dst, remote_dst, release_notes, notes_file, old_branch,
                   pushes, posts>>

\* a script that promotes and releases in a dry run too
SkipsMutation_Never(args) == FALSE

\* `if not cmd_args.dry_run` skips the promotion and the release
SkipsMutation(args) == args.dry_run

\* lines 229-230: a dry run ends here; the output of rev-parse is the
\* commit's hash and a newline
rev_parse ==
    /\ pc = "rev_parse"
    /\ IF SkipsMutation(cmd_args)
       THEN /\ Exit(0, "end")
            /\ UNCHANGED old_branch
       ELSE /\ old_branch' = <<origin_dst, "\n">>
            /\ Goto("commit")
    /\ unchanged_repo
    /\ UNCHANGED <<origin_dst, remote_dst, release_notes, notes_file, cur_version,
                   new_version, pushes, posts, traceback>>

\* what `git checkout origin/{src}` checks out: the commit of the branch
\* of that name on the remote, and 0 (the command fails) when src is not
\* the name of a branch, as the output of rev-parse is not
CheckoutOrigin(src) ==
    IF Len(src) # 1 THEN 0
    ELSE IF src[1] = source THEN origin_src
    ELSE IF src[1] = destination THEN origin_dst
    ELSE 0

\* a push that leaves the remote as it was
Pushed_Nothing(head, before) == before

\* the commit `git push --force origin <dst>` leaves on the remote
Pushed(head, before) == head

\* a commit whose caller goes on when a command fails
commit_IgnoringFailure(src, push_ok, at, next) ==
    LET head == CheckoutOrigin(src)
    IN  IF head = 0
        THEN /\ next
             /\ UNCHANGED <<origin_dst, remote_dst, pushes>>
        ELSE /\ pushes' = Append(pushes, [head |-> head, ok |-> push_ok,
                                          before |-> remote_dst])
             /\ IF push_ok
                THEN /\ remote_dst' = Pushed(head, remote_dst)
                     /\ origin_dst' = Pushed(head, remote_dst)
                     /\ next
                ELSE /\ next
                     /\ UNCHANGED <<origin_dst, remote_dst>>

\* commit(repo, src, dst): set-url, checkout origin/src, checkout -B dst,
\* push --force; push_ok is whether the remote accepts the push.  The step
\* goes to `next` when all four commands succeed.
commit(src, push_ok, at, next) ==
    LET head == CheckoutOrigin(src)
    IN  IF head = 0
        THEN /\ Exit(1, at)
             /\ UNCHANGED <<origin_dst, remote_dst, pushes>>
        ELSE /\ pushes' = Append(pushes, [head |-> head, ok |-> push_ok,
                                          before |-> remote_dst])
             /\ IF push_ok
                THEN /\ remote_dst' = Pushed(head, remote_dst)
                     /\ origin_dst' = Pushed(head, remote_dst)
                     /\ next
                ELSE /\ Exit(1, at)
                     /\ UNCHANGED <<origin_dst, remote_dst>>

\* line 231; local_ok is whether the commands of commit before the push
\* succeed in the working tree (a checkout fails when it would overwrite an
\* untracked file, which check_working_tree does not look at)
promote ==
    /\ pc = "commit"
    /\ \E local_ok, push_ok \in BOOLEAN :
         IF local_ok
         THEN commit(<<source>>, push_ok, "commit", Goto("post"))
         ELSE /\ Exit(1, "commit")
              /\ UNCHANGED <<origin_dst, remote_dst, pushes>>
    /\ traceback' = IF exit_at' = "commit" THEN <<"CalledProcessError">> ELSE traceback
    /\ unchanged_repo
    /\ UNCHANGED <<release_notes, notes_file, cur_version, new_version, old_branch, posts>>

\* a request that creates the release published
body_NotDraft ==
    [tag_name |-> new_version, name |-> <<destination, new_version>>,
     prerelease |-> prerelease, draft |-> FALSE, target_commitish |-> destination,
     body |-> release_notes]

\* lines 232-239
body ==
    [tag_name |-> new_version, name |-> <<destination, new_version>>,
     prerelease |-> prerelease, draft |-> TRUE, target_commitish |-> destination,
     body |-> release_notes]

\* the ways the request ends: a 2xx response, another response, or an
\* exception of the transport
Responses == {"2xx", "non2xx", "transport"}

\* a handler that takes every end of the request for an HTTPError
RaisesHTTPError_Always(resp) == TRUE

\* resp.raise_for_status() raises HTTPError, which the script catches, for a
\* response that is not 2xx
RaisesHTTPError(resp) == resp = "non2xx"

\* lines 241-249: requests.post and resp.raise_for_status()
post ==
    /\ pc = "post"
    /\ \E resp \in Responses :
         /\ posts' = Append(posts, [body |-> body, resp |-> resp])
         /\ IF RaisesHTTPError(resp) THEN Goto("rollback")
            ELSE IF resp = "transport" THEN Exit(1, "post")
            ELSE Exit(0, "end")
         /\ traceback' = IF ~RaisesHTTPError(resp) /\ resp = "transport"
                         THEN <<"ConnectionError">> ELSE traceback
    /\ unchanged_repo
    /\ UNCHANGED <<origin_dst, remote_dst, release_notes, notes_file, cur_version,
                   new_version, old_branch, pushes>>

\* a traceback that shows the last exception only
Chained_Swallowing(handled, raised) == <<raised>>

\* the traceback of an exception raised while another is handled: Python
\* prints the handled one, then the one raised in the handler
Chained(handled, raised) == <<handled, raised>>

\* lines 250-252: commit(repository, old_branch, destination), then raise ex
rollback ==
    /\ pc = "rollback"
    /\ \E push_ok \in BOOLEAN : commit(old_branch, push_ok, "rollback", Exit(1, "raise"))
    /\ traceback' = IF exit_at' = "rollback" THEN Chained("HTTPError", "CalledProcessError")
                    ELSE <<"HTTPError">>
    /\ unchanged_repo
    /\ UNCHANGED <<release_notes, notes_file, cur_version, new_version, old_branch, posts>>

Next ==
    \/ module_level
    \/ check_working_tree
    \/ check_diff
    \/ make_release_notes
    \/ update_version_step
    \/ rev_parse
    \/ promote
    \/ post
    \/ rollback

Spec == Init /\ [][Next]_vars

(***************************************************************************)
(* The version decision alone: update_version applied to every release     *)
(* list of the version universe, for every stage and release type.         *)
(***************************************************************************)
InitVersion ==
    /\ argv \in {a \in CommandLines : ~a.force /\ ~a.release_notes /\ ~a.dry_run}
    /\ pc = "update_version"
    /\ releases \in SeqsUpTo(TagNames, MaxReleases)
    /\ exit_code = -1
    /\ exit_at = ""
    /\ tree_dirty = FALSE
    /\ path_log = FALSE
    /\ origin_src = 1
    /\ origin_dst = 1
    /\ remote_dst = 1
    /\ release_notes = {}
    /\ notes_file = Unset
    /\ cur_version = Unset
    /\ new_version = Unset
    /\ old_branch = Unset
    /\ pushes = <<>>
    /\ posts = <<>>
    /\ traceback = <<>>

NextVersion == update_version_step

SpecVersion == InitVersion /\ [][NextVersion]_vars

(***************************************************************************)
(* Runs of the script one after the other on a repository whose releases   *)
(* are those the script created, each in the list the later runs read.     *)
(***************************************************************************)
InitRuns ==
    /\ argv \in CommandLines
    /\ pc = "parse"
    /\ releases = <<>>
    /\ exit_code = -1
    /\ exit_at = ""
    /\ tree_dirty = FALSE
    /\ path_log \in BOOLEAN
    /\ origin_src \in Commits
    /\ origin_dst = 1
    /\ remote_dst = 1
    /\ release_notes = {}
    /\ notes_file = Unset
    /\ cur_version = Unset
    /\ new_version = Unset
    /\ old_branch = Unset
    /\ pushes = <<>>
    /\ posts = <<>>
    /\ traceback = <<>>

\* the script is run again, for any stage and release type, after a run
\* that created a release; GET /releases now returns that release too
next_run ==
    /\ pc = "exit" /\ exit_at = "end" /\ exit_code = 0
    /\ Len(posts) = 1 /\ posts[1].resp = "2xx"
    /\ Len(releases) < MaxRuns
    /\ releases' = Append(releases, posts[1].body.tag_name)
    /\ \E st \in StageNames, rel \in ReleaseKinds \cup {""} :
         argv' = [argv EXCEPT !.stage = st, !.release = rel]
    /\ pc' = "parse"
    /\ exit_code' = -1
    /\ exit_at' = ""
    /\ release_notes' = {}
    /\ notes_file' = Unset
    /\ cur_version' = Unset
    /\ new_version' = Unset
    /\ old_branch' = Unset
    /\ pushes' = <<>>
    /\ posts' = <<>>
    /\ traceback' = <<>>
    /\ UNCHANGED <<tree_dirty, path_log, origin_src, origin_dst, remote_dst>>

NextRuns ==
    \/ Next
    \/ next_run

SpecRuns == InitRuns /\ [][NextRuns]_vars

(***************************************************************************)
(* The properties.                                                         *)
(***************************************************************************)
\* the script has ended
Exited == pc = "exit"

\* update_version has been run
VersionComputed == pc # "update_version" /\ cur_version # Unset

\* tag a precedes tag b in the precedence of semver.org: major, minor and
\* patch numerically; then a labelled version before the unlabelled one;
\* then the identifiers of the labels, the shorter label first
SemverPrecedes(a, b) ==
    IF a[1] # b[1] THEN a[1] < b[1]
    ELSE IF a[2] # b[2] THEN a[2] < b[2]
    ELSE IF a[3] # b[3] THEN a[3] < b[3]
    ELSE IF Len(a) = 3 \/ Len(b) = 3 THEN Len(a) > 3 /\ Len(b) = 3
    ELSE IF a[4] # b[4] THEN TokRank(a[4]) < TokRank(b[4])
    ELSE IF Len(a) = 5 /\ Len(b) = 5 THEN a[5] < b[5]
    ELSE Len(a) < Len(b)

\* the releases of the list that qualify for a stage: a parseable tag with
\* a label that starts with rc for "staging", without a label for "prod"
Qualifying(stage_name) ==
    {i \in 1..Len(releases) :
        /\ Len(releases[i]) \in {3, 4, 5}
        /\ IF stage_name = "staging"
           THEN Len(releases[i]) > 3 /\ releases[i][4] \in {"rc", "rcx"}
           ELSE Len(releases[i]) = 3}

\* the commits reachable from the destination and not from the source, as
\* the local repository sees the two branches of the remote
LostCommits == Reach(origin_dst) \ Reach(origin_src)

\* C1: when the promotion push succeeded and the release-creation request
\* got a non-2xx response, the script ends with the remote destination at
\* the commit it had before the promotion, and with a non-zero status.
C1_PublishFailureRollsBack ==
    (/\ Exited
     /\ Len(pushes) >= 1 /\ pushes[1].ok
     /\ Len(posts) >= 1 /\ posts[1].resp = "non2xx")
    => (remote_dst = pushes[1].before /\ exit_code # 0)

\* C2: a dry run pushes nothing and sends no release-creation request, and
\* once it has passed both checks the notes are computed and, when
\* --release-notes is given, written to the file.
C2_DryRunMutatesNothing ==
    argv.dry_run =>
      /\ pushes = <<>>
      /\ posts = <<>>
      /\ (pc \in {"update_version", "rev_parse"} \/ exit_at \in {"update_version", "end"})
         => LET notes == {c \in Commits : (c \in Reach(origin_src)) # (c \in Reach(origin_dst))}
            IN  /\ release_notes = notes
                /\ argv.release_notes => notes_file = <<notes>>

C2_Witness ==
    /\ argv.dry_run /\ argv.release_notes
    /\ exit_at = "end" /\ exit_code = 0
    /\ notes_file # Unset /\ notes_file[1] # {}

\* C3: with changes in the working tree the script goes no further than
\* check_working_tree, whether --force is given or not: it ends with status
\* 1 before the lost-commits check, with no notes written, nothing pushed
\* and no release-creation request sent.
C3_DirtyTreeBlocks ==
    tree_dirty =>
      /\ pc \in {"parse", "check_working_tree", "exit"}
      /\ Exited => (exit_code = 1 /\ exit_at \in {"parse", "check_working_tree"})
      /\ notes_file = Unset /\ pushes = <<>> /\ posts = <<>>

C3_Witness ==
    /\ tree_dirty /\ argv.force
    /\ exit_at = "check_working_tree" /\ exit_code = 1

\* C4: without --force the lost-commits check ends the script with status 1
\* exactly when some commit is reachable from the destination and not from
\* the source; otherwise the script goes on.
C4_LostCommitsCheckExact ==
    ~argv.force =>
      /\ pc = "make_release_notes" => LostCommits = {}
      /\ exit_at = "check_diff" => (LostCommits # {} /\ exit_code = 1)

\* C5: with --force the lost-commits check does not end the script, and
\* right after a successful promotion no commit that was reachable from the
\* destination and not from the source is reachable from the remote
\* destination.
C5_ForceDiscardsLostCommits ==
    argv.force =>
      /\ exit_at # "check_diff"
      /\ pc = "post" =>
           \A C \in (Reach(old_branch[1]) \cup Reach(pushes[1].before)) \ Reach(origin_src) :
              C \notin Reach(remote_dst)

C5_Witness ==
    /\ argv.force /\ path_log /\ pc = "post"
    /\ Reach(old_branch[1]) \ Reach(origin_src) # {}
    /\ Reach(pushes[1].before) \ Reach(origin_src) # {}

\* C6: a promotion to "prod" is rejected exactly when --release is given on
\* the command line; without it the script goes on to the checks.
C6_ProdRejectsOnlyExplicitBump ==
    (argv.stage = "prod" /\ pc # "parse")
    => ((exit_at = "parse") <=> (argv.release # ""))

\* C7: promoting into production (stage "prod", staging to prod), the next
\* version is the latest rc release with its label removed, whenever the
\* list has an rc release.
C7_ProdFinalizesStaging ==
    (/\ VersionComputed
     /\ argv.stage = "prod" /\ source = "staging" /\ destination = "prod"
     /\ Qualifying("staging") # {})
    => \E i \in Qualifying("staging") :
         /\ \A j \in Qualifying("staging") : ~SemverPrecedes(releases[i], releases[j])
         /\ new_version = <<releases[i][1], releases[i][2], releases[i][3]>>

\* C8: when some release qualifies for the stage, the current version of
\* "staging" is the greatest rc release and that of "prod" the greatest
\* release without a label.
C8_CurrentVersionIsStageMaximum ==
    (/\ VersionComputed
     /\ argv.stage \in {"staging", "prod"}
     /\ Qualifying(argv.stage) # {})
    => \E i \in Qualifying(argv.stage) :
         /\ \A j \in Qualifying(argv.stage) : ~SemverPrecedes(releases[i], releases[j])
         /\ cur_version = releases[i]

\* C9: when no release qualifies for the stage, the list being empty or
\* holding releases of the other kind only, the current version is 0.0.0
\* and the script goes on.
C9_NoQualifyingReleaseGivesZero ==
    (/\ VersionComputed
     /\ argv.stage \in {"staging", "prod"}
     /\ \A i \in 1..Len(releases) : Len(releases[i]) \in {3, 4, 5}
     /\ Qualifying(argv.stage) = {})
    => (cur_version = <<0, 0, 0>> /\ exit_at # "update_version")

\* C10: a release with an unparseable tag is left out of the listing: the
\* current version is that of the list without it.
C10_MalformedTagSkipped ==
    VersionComputed
    => cur_version = get_current_version(SelectSeq(releases, IsParseable), argv.stage)

\* update_version took the bumping branch of a promotion that is not one
\* to prod, and had a current version to bump
BumpedNonProd ==
    /\ VersionComputed
    /\ argv.stage # "prod" /\ source # "prod"
    /\ cur_version # ValueError

BumpedTriple(release, tag) ==
    IF release = "major" THEN <<tag[1] + 1, 0, 0>>
    ELSE IF release = "minor" THEN <<tag[1], tag[2] + 1, 0>>
    ELSE <<tag[1], tag[2], tag[3] + 1>>

\* C12 as stated: a prerelease bump of a version with a numbered label
\* increments the number and nothing else, and a major, minor or patch
\* bump gets the label rc.0.
C12_BumpAttachesRc0 ==
    BumpedNonProd =>
      /\ (cmd_args.release = "prerelease" /\ Len(cur_version) = 5)
         => new_version = [cur_version EXCEPT ![5] = @ + 1]
      /\ cmd_args.release # "prerelease"
         => new_version = BumpedTriple(cmd_args.release, cur_version) \o <<"rc", 0>>

\* C12 as amended: a prerelease bump of a version with a numbered label
\* increments the number and nothing else, and a major, minor or patch
\* bump gets the label rc.1.
C12_BumpAttachesRc1 ==
    BumpedNonProd =>
      /\ (cmd_args.release = "prerelease" /\ Len(cur_version) = 5)
         => new_version = [cur_version EXCEPT ![5] = @ + 1]
      /\ cmd_args.release # "prerelease"
         => new_version = BumpedTriple(cmd_args.release, cur_version) \o <<"rc", 1>>

C12_Witness ==
    /\ BumpedNonProd /\ pc = "rev_parse"
    /\ argv.release = "patch" /\ cur_version = <<1, 1, 0, "rc", 1>>
    /\ new_version = <<1, 1, 1, "rc", 1>>

\* C13: when the next version equals the current version the script ends
\* in update_version with status 0, having pushed nothing and sent no
\* release-creation request, in a dry run or not.
C13_NothingToPromoteExitsZero ==
    (VersionComputed /\ cur_version # ValueError /\ new_version = cur_version)
    => /\ Exited /\ exit_code = 0 /\ exit_at = "update_version"
       /\ pushes = <<>> /\ posts = <<>>

C13_Witness ==
    /\ VersionComputed /\ new_version = cur_version /\ cur_version = <<0, 0, 0, "rc">>
    /\ ~argv.dry_run /\ argv.stage = "staging"
    /\ exit_code = 0 /\ exit_at = "update_version"

\* the run ended in success: promoted and released
Success == exit_at = "end" /\ exit_code = 0 /\ ~argv.dry_run

\* C14: a run that is not a dry run and ends in success leaves the remote
\* destination at the commit of the source branch (origin/<source>, which
\* the script promotes); a dry run changes neither the remote destination
\* nor the releases of the remote.
C14_SuccessSyncsAndDryRunKeeps ==
    [][/\ argv.dry_run => (remote_dst' = remote_dst /\ releases' = releases /\ posts' = posts)
       /\ Success' => remote_dst' = origin_src']_vars

C14_Witness ==
    /\ Success
    /\ remote_dst = origin_src
    /\ pushes[1].before # remote_dst

\* C15: every release-creation request is for a draft, with the next
\* version of this run as its tag, "<destination> <version>" as its name,
\* the destination branch of the stage as its target and the prerelease
\* flag of the stage.
C15_RequestsAreDrafts ==
    \A i \in 1..Len(posts) :
       /\ posts[i].body.draft = TRUE
       /\ posts[i].body.tag_name = new_version
       /\ posts[i].body.name = <<release_map[argv.stage].destination, new_version>>
       /\ posts[i].body.target_commitish = release_map[argv.stage].destination
       /\ posts[i].body.prerelease = release_map[argv.stage].prerelease

C15_Witness ==
    /\ Len(posts) = 1 /\ posts[1].resp = "2xx"
    /\ posts[1].body.tag_name = <<0, 0, 0, "rc", 1>>
    /\ argv.stage = "staging" /\ Exited

\* C16: when the promotion fails (a command before the push fails in the
\* working tree, or the push is refused), the script ends
\* there with a non-zero status: no release-creation request is sent, no
\* rollback is attempted, and the remote destination is where it was.
C16_PromotionFailureIsFatal ==
    /\ []((exit_at = "commit" \/ (Len(pushes) >= 1 /\ ~pushes[1].ok))
          => /\ Exited /\ exit_code = 1 /\ exit_at = "commit"
             /\ posts = <<>>
             /\ Len(pushes) <= 1
             /\ Len(pushes) = 1 => remote_dst = pushes[1].before)
    /\ [][(pc = "commit" /\ exit_at' = "commit") => remote_dst' = remote_dst]_vars

C16_Witness ==
    /\ Len(pushes) = 1 /\ ~pushes[1].ok /\ pushes[1].head # pushes[1].before
    /\ exit_at = "commit" /\ exit_code = 1

\* the step that rolls back has been entered
RollbackAttempted == pc = "rollback" \/ exit_at \in {"rollback", "raise"}

\* C17: a rollback is attempted, and a second push made, only after an
\* accepted promotion push and a non-2xx response to the release-creation
\* request; a run makes one promotion push and one rollback push at most.
C17_RollbackOnlyAfterPublishFailure ==
    /\ (RollbackAttempted \/ Len(pushes) >= 2)
       => /\ Len(pushes) >= 1 /\ pushes[1].ok
          /\ Len(posts) = 1 /\ posts[1].resp = "non2xx"
          /\ ~argv.dry_run /\ ~tree_dirty /\ new_version # cur_version
    /\ Len(pushes) <= 2
    /\ Len(pushes) = 2 => exit_at \in {"rollback", "raise"}

C17_Witness ==
    /\ RollbackAttempted /\ Exited
    /\ pushes[1].ok /\ posts[1].resp = "non2xx"

\* C18: when the rollback fails after a publish failure, the script ends
\* there with a non-zero status, without another attempt, and its traceback
\* shows the failure of the rollback and the publish failure before it.
C18_RollbackFailureReportsBoth ==
    exit_at = "rollback"
    => /\ Exited /\ exit_code = 1
       /\ \E i, j \in 1..Len(traceback) :
             i < j /\ traceback[i] = "HTTPError" /\ traceback[j] = "CalledProcessError"
       /\ Len(pushes) <= 2 /\ Len(posts) = 1

C18_Witness ==
    /\ exit_at = "rollback" /\ exit_code = 1
    /\ Len(pushes) = 1 /\ posts[1].resp = "non2xx"

\* C19: a run that ends without a release created and without a refused
\* rollback push leaves the remote destination at the commit it had before
\* the run, also when the request ends in an exception of the transport.
C19_NoReleaseNoPromotion ==
    (/\ Exited
     /\ \A i \in 1..Len(posts) : posts[i].resp # "2xx"
     /\ ~(Len(pushes) = 2 /\ ~pushes[2].ok))
    => (pushes = <<>> \/ remote_dst = pushes[1].before)

\* C20: over successive runs that each create a release, the tag of the
\* release a run creates is the tag of no release of the list it read,
\* for every stage of the configuration.
C20_CreatedTagIsNew ==
    (Success /\ Len(posts) = 1 /\ posts[1].resp = "2xx")
    => \A i \in 1..Len(releases) : releases[i] # posts[1].body.tag_name

====
